---- MODULE Spec2Model ----
(***************************************************************************)
(* Model of the task-list GraphQL server of src/src/index.js (the second   *)
(* program of the file, lines 92-355): the Users and TaskList collections, *)
(* the per-request context built from the authorization header, and the    *)
(* resolvers.  A resolver is an async function: every `await` of a         *)
(* database call is a point where other requests may run, so a resolver is *)
(* one action per database call, each action being the synchronous code    *)
(* that leads to the call together with the (atomic, single-document)      *)
(* database operation.                                                     *)
(*                                                                         *)
(* Spec     admits a request only when no other request is in flight       *)
(*          (requests one after the other);                                *)
(* SpecConc admits requests while others are in flight (the server's       *)
(*          event loop interleaves them at their awaits).                  *)
(***************************************************************************)
EXTENDS Integers, Sequences, FiniteSets, TLC

\* ---------------------------------------------------------------- bounds
MaxUsers == 2
MaxLists == 2
MaxAdded == 2
MaxClock == 1
NumReq == 2
ConcLists == 1
ConcAdded == 2

VARIABLES
    Users,      \* db.collection("Users"): documents in natural (insertion) order
    TaskList,   \* db.collection("TaskList"): documents in natural order
    insertedUsers, \* how many ObjectIds the driver generated for Users documents
    insertedLists, \* how many ObjectIds the driver generated for TaskList documents
    now,        \* the wall clock read by new Date()
    req,        \* the requests in flight, one record per slot
    deletedTrue \* per identifier, how many deleteTaskList calls answered true

vars == <<Users, TaskList, insertedUsers, insertedLists, now, req, deletedTrue>>

Reqs == 1..NumReq

\* ------------------------------------------------------------ values
\* JavaScript null / undefined.
NULL == [null |-> TRUE]

\* A resolver's outcome: a returned value or a thrown Error.
Value(v) == [kind |-> "value", val |-> v]
Error(m) == [kind |-> "error", msg |-> m]

AuthErrorMsg == "Authentication Error. Please sign in"
CredentialsErrorMsg == "Invalid credentials!"
TokenErrorMsg == "JsonWebTokenError"
ObjectIdErrorMsg == "Argument passed in must be a single String of 12 bytes or a string of 24 hex characters"
NonNullErrorMsg == "Cannot return null for non-nullable field TaskList.users."

\* ------------------------------------------------------- identifiers
\* An ObjectId is modelled by a natural number.  A GraphQL ID argument is a
\* string: the lower-case hex spelling of an ObjectId (what toString() gives),
\* the upper-case spelling of the same 24 hex digits (which ObjectId() accepts
\* and which is a different string), or a string ObjectId() rejects.
IdString(v, form) == [v |-> v, form |-> form]
MalformedId == IdString(0, "bad")

\* ObjectId(str): throws for a string that is not an identifier.
ObjectIdValid(s) == s.form # "bad"
ObjectId(s) == s.v

\* dbId.toString(): the lower-case hex spelling.
toString(oid) == IdString(oid, "lower")

\* The driver generates an ObjectId for every inserted document; generated
\* identifiers are pairwise distinct.  The k-th Users document gets k, the
\* k-th TaskList document MaxUsers + k.  Identifier 0 is never generated: it
\* stands for any well-formed identifier that names no document of this
\* database.
UserOid(k) == k
ListOid(k) == MaxUsers + k

\* --------------------------------------------------------- passwords
\* bcrypt.hashSync / bcrypt.compareSync: the hash is not the plaintext and
\* compareSync accepts exactly the password that was hashed.
HashSync(p) == [bcrypt |-> p]
CompareSync(candidate, hash) == hash = HashSync(candidate)

\* ------------------------------------------------------------ tokens
\* The authorization header: absent, a string jwt.verify rejects (malformed,
\* expired, forged), or a token signed with JWT_SECRET whose payload is
\* { id } (getToken) or carries no id.
NoHeader == [kind |-> "none", sub |-> MalformedId]
InvalidToken == [kind |-> "invalid", sub |-> MalformedId]
TokenWithoutId == [kind |-> "noid", sub |-> MalformedId]
ValidToken(sub) == [kind |-> "valid", sub |-> sub]

getToken(user) == ValidToken(toString(user._id))

\* ------------------------------------------------ the document store
MatchingIndexes(coll, oid) == {i \in DOMAIN coll : coll[i]._id = oid}

FirstIndex(S) == CHOOSE i \in S : \A j \in S : i <= j

\* collection.findOne({ _id: oid })
FindOneById(coll, oid) ==
    IF MatchingIndexes(coll, oid) = {} THEN NULL
    ELSE coll[FirstIndex(MatchingIndexes(coll, oid))]

\* collection("Users").findOne({ email }): the first match in natural order
FindOneByEmail(coll, email) ==
    LET S == {i \in DOMAIN coll : coll[i].email = email}
    IN IF S = {} THEN NULL ELSE coll[FirstIndex(S)]

\* the query { userIds: oid } matches a document whose array holds oid
HasMember(doc, oid) == \E i \in DOMAIN doc.userIds : doc.userIds[i] = oid

\* a query that matches the first entry of userIds only
FindByFirstMember(coll, oid) == SelectSeq(coll, LAMBDA d : d.userIds[1] = oid)

\* collection("TaskList").find({ userIds: oid }).toArray()
FindByMember(coll, oid) == SelectSeq(coll, LAMBDA d : HasMember(d, oid))

\* collection.insertOne(doc): the driver gives the document its _id
InsertOne(coll, doc, oid) ==
    Append(coll, [f \in (DOMAIN doc) \cup {"_id"} |->
                     IF f = "_id" THEN oid ELSE doc[f]])

\* updateOne with a filter that matches every document: the first is updated
UpdateFirstSetTitle(coll, oid, title) ==
    IF coll = <<>> THEN coll ELSE [coll EXCEPT ![1].title = title]

\* the same update with { upsert: true } and $setOnInsert: { userIds: [] }
UpdateOneSetTitleUpsert(coll, oid, title) ==
    IF MatchingIndexes(coll, oid) = {}
    THEN Append(coll, [_id |-> oid, title |-> title, userIds |-> <<>>])
    ELSE [coll EXCEPT ![FirstIndex(MatchingIndexes(coll, oid))].title = title]

\* collection.updateOne({ _id: oid }, { $set: { title } }), no upsert
UpdateOneSetTitle(coll, oid, title) ==
    IF MatchingIndexes(coll, oid) = {} THEN coll
    ELSE [coll EXCEPT ![FirstIndex(MatchingIndexes(coll, oid))].title = title]

\* an update that puts the member at the front of the array ($position: 0)
UpdateOnePushFront(coll, oid, member) ==
    IF MatchingIndexes(coll, oid) = {} THEN coll
    ELSE [coll EXCEPT ![FirstIndex(MatchingIndexes(coll, oid))].userIds =
                          <<member>> \o @]

\* the same update with { upsert: true }: no match inserts a document
UpdateOnePushUpsert(coll, oid, member) ==
    IF MatchingIndexes(coll, oid) = {}
    THEN Append(coll, [_id |-> oid, userIds |-> <<member>>])
    ELSE [coll EXCEPT ![FirstIndex(MatchingIndexes(coll, oid))].userIds =
                          Append(@, member)]

\* an update that writes the array anew, { $set: { userIds: [first, member] } }
UpdateOneSetMembers(coll, oid, member) ==
    IF MatchingIndexes(coll, oid) = {} THEN coll
    ELSE [coll EXCEPT ![FirstIndex(MatchingIndexes(coll, oid))].userIds =
                          <<@[1], member>>]

\* collection.updateOne({ _id: oid }, { $push: { userIds: member } }), no upsert
UpdateOnePush(coll, oid, member) ==
    IF MatchingIndexes(coll, oid) = {} THEN coll
    ELSE [coll EXCEPT ![FirstIndex(MatchingIndexes(coll, oid))].userIds =
                          Append(@, member)]

\* collection.deleteOne({ _id: oid }): the collection it leaves
DeleteOne(coll, oid) ==
    IF MatchingIndexes(coll, oid) = {} THEN coll
    ELSE LET k == FirstIndex(MatchingIndexes(coll, oid))
         IN SubSeq(coll, 1, k - 1) \o SubSeq(coll, k + 1, Len(coll))

\* a result that reports the command's ok flag for the deleted count
DeletedCountOk(coll, oid) == 1

\* result.deletedCount of that deleteOne
DeletedCount(coll, oid) == IF MatchingIndexes(coll, oid) = {} THEN 0 ELSE 1

\* ------------------------------------------------- the request context
\* getUserFromToken with a try/catch around jwt.verify that returns null
getUserFromTokenCatching(token, users) ==
    IF token.kind \in {"none", "invalid", "noid"} THEN Value(NULL)
    ELSE Value(FindOneById(users, ObjectId(token.sub)))

\* getUserFromToken looking the user up by the string, not by ObjectId(string):
\* no _id equals a string
getUserFromTokenByString(token, users) ==
    IF token.kind = "invalid" THEN Error(TokenErrorMsg) ELSE Value(NULL)

\* getUserFromToken(token, db), lines 106-120.  jwt.verify throws for a token
\* it rejects; nothing catches it.
getUserFromToken(token, users) ==
    IF token.kind = "none" THEN Value(NULL)
    ELSE IF token.kind = "invalid" THEN Error(TokenErrorMsg)
    ELSE IF token.kind = "noid" THEN Value(NULL)
    ELSE Value(FindOneById(users, ObjectId(token.sub)))

NoArgs == [none |-> TRUE]
PENDING == [pending |-> TRUE]

Idle == [pc |-> "idle", op |-> "none", hdr |-> NoHeader, user |-> NULL,
         args |-> NoArgs, loc |-> NULL, ret |-> NULL]

\* The context function of the server, lines 338-346: the request is aborted
\* when getUserFromToken throws, and otherwise the resolver gets { db, user }.
Context(op, hdr, args, users) ==
    LET u == getUserFromToken(hdr, users)
    IN IF u.kind = "error"
       THEN [pc |-> "aborted", op |-> op, hdr |-> hdr, user |-> NULL,
             args |-> args, loc |-> NULL, ret |-> u]
       ELSE [pc |-> "resolve", op |-> op, hdr |-> hdr, user |-> u.val,
             args |-> args, loc |-> NULL, ret |-> NULL]

\* ------------------------------------------------------------ inputs
Emails == {"a@x", "b@x"}
Passwords == {"p", "q"}
Titles == {"T1", "T2"}
SignUpInputs == {[email |-> "a@x", password |-> "p", name |-> "n"],
                 [email |-> "a@x", password |-> "q", name |-> "n"]}
SignInInputs == [email : Emails, password : Passwords]

\* Headers a client can send: none, a rejected token, a signed token without
\* id, the token of an existing user, the token of a user of another database.
Headers ==
    {NoHeader, InvalidToken, TokenWithoutId, ValidToken(toString(0))}
        \cup {getToken(Users[i]) : i \in DOMAIN Users}

\* signUp and signIn do not read the context's user.
HeadersOf(op) ==
    IF op \in {"signUp", "signIn"} THEN {NoHeader, InvalidToken} ELSE Headers

\* Identifier arguments: the spelling of a user's (for userId) or a list's
\* (for id, taskListId) identifier, of an identifier of no document, or a
\* malformed string.
UserOids == {UserOid(k) : k \in 1..insertedUsers}
ListOids == {ListOid(k) : k \in 1..insertedLists}
ListIdArgs == {toString(v) : v \in ListOids \cup {0}} \cup {MalformedId}
UserIdArgs ==
    {IdString(v, f) : v \in UserOids \cup {0}, f \in {"lower", "upper"}}
        \cup {MalformedId}

ArgsOf(op) ==
    CASE op = "myTaskLists" -> {NoArgs}
      [] op = "getTaskList" -> [id : ListIdArgs, users : BOOLEAN]
      [] op = "signUp" -> SignUpInputs
      [] op = "signIn" -> SignInInputs
      [] op = "createTaskList" -> [title : Titles]
      [] op = "updateTaskList" -> [id : ListIdArgs, title : Titles]
      [] op = "deleteTaskList" -> [id : ListIdArgs]
      [] op = "addUserToTaskList" -> [taskListId : ListIdArgs, userId : UserIdArgs]

\* the operations that require a signed-in user, and all operations
TaskListOperations == {"myTaskLists", "getTaskList", "createTaskList",
                       "updateTaskList", "deleteTaskList", "addUserToTaskList"}
Operations == TaskListOperations \cup {"signUp", "signIn"}

\* What keeps the model finite: no more than MaxUsers sign-ups, MaxLists
\* created lists, and MaxAdded entries pushed to the stored userIds arrays.
RECURSIVE Added(_)
Added(coll) ==
    IF coll = <<>> THEN 0
    ELSE (Len(Head(coll).userIds) - 1) + Added(Tail(coll))

InFlight(op) == {q \in Reqs : req[q].op = op /\ req[q].pc = "resolve"}
PendingPushes ==
    {q \in Reqs : /\ req[q].op = "addUserToTaskList"
                  /\ req[q].pc \in {"resolve", "addUser_push"}
                  /\ req[q].user # NULL}
WithinBounds(op) ==
    CASE op = "signUp" -> insertedUsers + Cardinality(InFlight(op)) < MaxUsers
      [] op = "createTaskList" ->
            insertedLists + Cardinality(InFlight(op)) < MaxLists
      [] op = "addUserToTaskList" ->
            Added(TaskList) + Cardinality(PendingPushes) < MaxAdded
      [] OTHER -> TRUE

AllIdle == \A q \in Reqs : req[q].pc = "idle"
LowestIdle(r) == req[r].pc = "idle" /\ \A q \in Reqs : q < r => req[q].pc # "idle"

Admit(r, op, hdr, args) ==
    /\ LowestIdle(r)
    /\ req' = [req EXCEPT ![r] = Context(op, hdr, args, Users)]
    /\ UNCHANGED <<Users, TaskList, insertedUsers, insertedLists, now, deletedTrue>>

\* A request arrives while no other is in flight.
Arrive ==
    /\ AllIdle
    /\ \E r \in Reqs, op \in Operations :
           \E hdr \in HeadersOf(op), args \in ArgsOf(op) :
               /\ WithinBounds(op)
               /\ Admit(r, op, hdr, args)

\* Requests that arrive while others are in flight: the task-list operations,
\* sent by signed-in users, naming lists that were created and users of the
\* database or of none.
ConcOperations == TaskListOperations
ConcHeaders == {getToken(Users[i]) : i \in DOMAIN Users}
ConcListIdArgs == {toString(v) : v \in ListOids \cup {0}}
ConcUserIdArgs == {toString(v) : v \in UserOids \cup {0}}
ConcArgsOf(op) ==
    CASE op = "myTaskLists" -> {NoArgs}
      [] op = "getTaskList" -> [id : ConcListIdArgs, users : {FALSE}]
      [] op = "createTaskList" -> [title : {"T1"}]
      [] op = "updateTaskList" -> [id : ConcListIdArgs, title : Titles]
      [] op = "deleteTaskList" -> [id : ConcListIdArgs]
      [] op = "addUserToTaskList" ->
            [taskListId : ConcListIdArgs, userId : ConcUserIdArgs]

WithinBoundsConc(op) ==
    CASE op = "createTaskList" ->
            insertedLists + Cardinality(InFlight(op)) < ConcLists
      [] op = "addUserToTaskList" ->
            Added(TaskList) + Cardinality(PendingPushes) < ConcAdded
      [] OTHER -> TRUE

ArriveConc ==
    \E r \in Reqs, op \in ConcOperations :
        \E hdr \in ConcHeaders, args \in ConcArgsOf(op) :
            /\ WithinBoundsConc(op)
            /\ Admit(r, op, hdr, args)

\* The response is sent and the request is over.
Respond(r) ==
    /\ req[r].pc \in {"done", "aborted"}
    /\ req' = [req EXCEPT ![r] = Idle]
    /\ UNCHANGED <<Users, TaskList, insertedUsers, insertedLists, now, deletedTrue>>

Tick ==
    /\ now < MaxClock
    /\ now' = now + 1
    /\ UNCHANGED <<Users, TaskList, insertedUsers, insertedLists, req, deletedTrue>>

\* --------------------------------------------------------- resolvers
Running(r, op, pc) == req[r].op = op /\ req[r].pc = pc
Finish(r, outcome) ==
    req' = [req EXCEPT ![r].pc = "done", ![r].loc = NULL, ![r].ret = outcome]
Goto(r, pc, loc) == req' = [req EXCEPT ![r].pc = pc, ![r].loc = loc]

Store == <<Users, TaskList, insertedUsers, insertedLists, deletedTrue>>

\* Query.myTaskLists, lines 188-197
MyTaskLists(r) ==
    /\ Running(r, "myTaskLists", "resolve")
    /\ Finish(r, IF req[r].user = NULL THEN Error(AuthErrorMsg)
                 ELSE Value(FindByMember(TaskList, req[r].user._id)))
    /\ UNCHANGED <<Store, now>>

\* a getTaskList that answers null to a caller who is not a member
GetTaskListOfMember(r) ==
    /\ Running(r, "getTaskList", "resolve")
    /\ LET id == req[r].args.id
           doc == FindOneById(TaskList, ObjectId(id))
       IN IF req[r].user = NULL THEN Finish(r, Error(AuthErrorMsg))
          ELSE IF ~ObjectIdValid(id) THEN Finish(r, Error(ObjectIdErrorMsg))
          ELSE IF doc # NULL /\ ~HasMember(doc, req[r].user._id)
          THEN Finish(r, Value(NULL))
          ELSE IF doc # NULL /\ req[r].args.users
          THEN Goto(r, "users", [parent |-> doc,
                                 found |-> [i \in DOMAIN doc.userIds |-> PENDING]])
          ELSE Finish(r, Value(doc))
    /\ UNCHANGED <<Store, now>>

\* Query.getTaskList, lines 198-203.  When the query selects the list's
\* users, the field resolver TaskList.users runs on the returned list.
GetTaskList(r) ==
    /\ Running(r, "getTaskList", "resolve")
    /\ LET id == req[r].args.id
           doc == FindOneById(TaskList, ObjectId(id))
       IN IF req[r].user = NULL THEN Finish(r, Error(AuthErrorMsg))
          ELSE IF ~ObjectIdValid(id) THEN Finish(r, Error(ObjectIdErrorMsg))
          ELSE IF doc # NULL /\ req[r].args.users
          THEN Goto(r, "users", [parent |-> doc,
                                 found |-> [i \in DOMAIN doc.userIds |-> PENDING]])
          ELSE Finish(r, Value(doc))
    /\ UNCHANGED <<Store, now>>

\* TaskList.users, lines 317-320: userIds.map starts one findOne per id; the
\* lookups complete in any order, each filling its own position.
UsersLookup(r, i) ==
    /\ Running(r, "getTaskList", "users")
    /\ i \in DOMAIN req[r].loc.found
    /\ req[r].loc.found[i] = PENDING
    /\ Goto(r, "users",
            [req[r].loc EXCEPT !.found[i] =
                 FindOneById(Users, req[r].loc.parent.userIds[i])])
    /\ UNCHANGED <<Store, now>>

\* Promise.all resolves to the array of the lookups' results; the schema
\* declares users: [User!]!, line 170, so a null entry is a field error.
CompleteUsers(parent, found) ==
    IF \E i \in DOMAIN found : found[i] = NULL
    THEN Error(NonNullErrorMsg)
    ELSE Value([taskList |-> parent, users |-> found])

UsersSettled(r) ==
    /\ Running(r, "getTaskList", "users")
    /\ \A i \in DOMAIN req[r].loc.found : req[r].loc.found[i] # PENDING
    /\ Finish(r, CompleteUsers(req[r].loc.parent, req[r].loc.found))
    /\ UNCHANGED <<Store, now>>

\* a signUp that refuses an email some user already has
SignUpInsertUnique(r) ==
    /\ Running(r, "signUp", "resolve")
    /\ IF FindOneByEmail(Users, req[r].args.email) # NULL
       THEN /\ Finish(r, Error("Email already in use"))
            /\ UNCHANGED <<Users, insertedUsers>>
       ELSE /\ Users' = InsertOne(Users,
                                  [req[r].args EXCEPT !.password = HashSync(@)],
                                  UserOid(insertedUsers + 1))
            /\ insertedUsers' = insertedUsers + 1
            /\ Goto(r, "signUp_read", [insertedId |-> UserOid(insertedUsers + 1)])
    /\ UNCHANGED <<TaskList, insertedLists, now, deletedTrue>>

\* Mutation.signUp, lines 206-214: hash the password, insertOne
SignUpInsert(r) ==
    /\ Running(r, "signUp", "resolve")
    /\ Users' = InsertOne(Users,
                          [req[r].args EXCEPT !.password = HashSync(@)],
                          UserOid(insertedUsers + 1))
    /\ insertedUsers' = insertedUsers + 1
    /\ Goto(r, "signUp_read", [insertedId |-> UserOid(insertedUsers + 1)])
    /\ UNCHANGED <<TaskList, insertedLists, now, deletedTrue>>

\* Mutation.signUp, lines 215-221: read the user back, issue its token
SignUpRead(r) ==
    /\ Running(r, "signUp", "signUp_read")
    /\ LET newUser == FindOneById(Users, req[r].loc.insertedId)
       IN Finish(r, IF newUser = NULL THEN Error("TypeError")
                    ELSE Value([user |-> newUser, token |-> getToken(newUser)]))
    /\ UNCHANGED <<Store, now>>

\* signIn with a message of its own for an unknown email
signInTelling(input, users) ==
    LET user == FindOneByEmail(users, input.email)
    IN IF user = NULL THEN Error("User not found!")
       ELSE IF ~CompareSync(input.password, user.password)
       THEN Error(CredentialsErrorMsg)
       ELSE Value([user |-> user, token |-> getToken(user)])

\* Mutation.signIn, lines 224-241
signIn(input, users) ==
    LET user == FindOneByEmail(users, input.email)
    IN IF user = NULL THEN Error(CredentialsErrorMsg)
       ELSE IF ~CompareSync(input.password, user.password)
       THEN Error(CredentialsErrorMsg)
       ELSE Value([user |-> user, token |-> getToken(user)])

\* a signIn that records the time of the login in the user's document
SignInRecordingLogin(r) ==
    /\ Running(r, "signIn", "resolve")
    /\ Finish(r, signIn(req[r].args, Users))
    /\ Users' = [i \in DOMAIN Users |->
                    IF signIn(req[r].args, Users).kind = "value"
                       /\ Users[i] = signIn(req[r].args, Users).val.user
                    THEN [f \in (DOMAIN Users[i]) \cup {"lastLogin"} |->
                             IF f = "lastLogin" THEN now ELSE Users[i][f]]
                    ELSE Users[i]]
    /\ UNCHANGED <<TaskList, insertedUsers, insertedLists, deletedTrue, now>>

SignIn(r) ==
    /\ Running(r, "signIn", "resolve")
    /\ Finish(r, signIn(req[r].args, Users))
    /\ UNCHANGED <<Store, now>>

\* a createdAt computed once, when the server started
newTaskListStartupClock(title, user, clock) ==
    [title |-> title, createdAt |-> 0, userIds |-> <<user._id>>]

\* Mutation.createTaskList, lines 243-252: the new document
newTaskList(title, user, clock) ==
    [title |-> title, createdAt |-> clock, userIds |-> <<user._id>>]

CreateInsert(r) ==
    /\ Running(r, "createTaskList", "resolve")
    /\ IF req[r].user = NULL
       THEN /\ Finish(r, Error(AuthErrorMsg))
            /\ UNCHANGED <<TaskList, insertedLists>>
       ELSE /\ TaskList' = InsertOne(TaskList,
                               newTaskList(req[r].args.title, req[r].user, now),
                               ListOid(insertedLists + 1))
            /\ insertedLists' = insertedLists + 1
            /\ Goto(r, "create_read", [insertedId |-> ListOid(insertedLists + 1)])
    /\ UNCHANGED <<Users, insertedUsers, now, deletedTrue>>

\* Mutation.createTaskList, lines 253-256
CreateRead(r) ==
    /\ Running(r, "createTaskList", "create_read")
    /\ Finish(r, Value(FindOneById(TaskList, req[r].loc.insertedId)))
    /\ UNCHANGED <<Store, now>>

\* Mutation.updateTaskList, lines 258-272
UpdateWrite(r) ==
    /\ Running(r, "updateTaskList", "resolve")
    /\ LET id == req[r].args.id
       IN IF req[r].user = NULL
          THEN Finish(r, Error(AuthErrorMsg)) /\ UNCHANGED TaskList
          ELSE IF ~ObjectIdValid(id)
          THEN Finish(r, Error(ObjectIdErrorMsg)) /\ UNCHANGED TaskList
          ELSE /\ TaskList' = UpdateOneSetTitle(TaskList, ObjectId(id),
                                                req[r].args.title)
               /\ Goto(r, "update_read", NULL)
    /\ UNCHANGED <<Users, insertedUsers, insertedLists, now, deletedTrue>>

\* Mutation.updateTaskList, line 274
UpdateRead(r) ==
    /\ Running(r, "updateTaskList", "update_read")
    /\ Finish(r, Value(FindOneById(TaskList, ObjectId(req[r].args.id))))
    /\ UNCHANGED <<Store, now>>

\* deleteTaskList without its `if (!user) throw`
DeleteTaskListUnguarded(r) ==
    /\ Running(r, "deleteTaskList", "resolve")
    /\ LET id == req[r].args.id
           deleted == DeletedCount(TaskList, ObjectId(id)) # 0
       IN IF ~ObjectIdValid(id)
          THEN Finish(r, Error(ObjectIdErrorMsg))
               /\ UNCHANGED <<TaskList, deletedTrue>>
          ELSE /\ TaskList' = DeleteOne(TaskList, ObjectId(id))
               /\ Finish(r, Value(deleted))
               /\ deletedTrue' = IF deleted THEN Append(deletedTrue, ObjectId(id))
                                 ELSE deletedTrue
    /\ UNCHANGED <<Users, insertedUsers, insertedLists, now>>

\* Mutation.deleteTaskList, lines 276-285
DeleteTaskList(r) ==
    /\ Running(r, "deleteTaskList", "resolve")
    /\ LET id == req[r].args.id
           deleted == DeletedCount(TaskList, ObjectId(id)) # 0
       IN IF req[r].user = NULL
          THEN Finish(r, Error(AuthErrorMsg)) /\ UNCHANGED <<TaskList, deletedTrue>>
          ELSE IF ~ObjectIdValid(id)
          THEN Finish(r, Error(ObjectIdErrorMsg))
               /\ UNCHANGED <<TaskList, deletedTrue>>
          ELSE /\ TaskList' = DeleteOne(TaskList, ObjectId(id))
               /\ Finish(r, Value(deleted))
               /\ deletedTrue' = IF deleted THEN Append(deletedTrue, ObjectId(id))
                                 ELSE deletedTrue
    /\ UNCHANGED <<Users, insertedUsers, insertedLists, now>>

\* taskList.userIds.find((dbId) => dbId.toString() === userId.toString()),
\* line 294
AlreadyMember(taskList, userId) ==
    \E i \in DOMAIN taskList.userIds : toString(taskList.userIds[i]) = userId

\* Mutation.addUserToTaskList, lines 286-296
AddUserFind(r) ==
    /\ Running(r, "addUserToTaskList", "resolve")
    /\ LET id == req[r].args.taskListId
           taskList == FindOneById(TaskList, ObjectId(id))
       IN IF req[r].user = NULL THEN Finish(r, Error(AuthErrorMsg))
          ELSE IF ~ObjectIdValid(id) THEN Finish(r, Error(ObjectIdErrorMsg))
          ELSE IF taskList = NULL THEN Finish(r, Value(NULL))
          ELSE IF AlreadyMember(taskList, req[r].args.userId)
          THEN Finish(r, Value(taskList))
          ELSE Goto(r, "addUser_push", NULL)
    /\ UNCHANGED <<Store, now>>

\* Mutation.addUserToTaskList, lines 298-303
AddUserPush(r) ==
    /\ Running(r, "addUserToTaskList", "addUser_push")
    /\ IF ~ObjectIdValid(req[r].args.userId)
       THEN Finish(r, Error(ObjectIdErrorMsg)) /\ UNCHANGED TaskList
       ELSE /\ TaskList' = UpdateOnePush(TaskList, ObjectId(req[r].args.taskListId),
                                         ObjectId(req[r].args.userId))
            /\ Goto(r, "addUser_read", NULL)
    /\ UNCHANGED <<Users, insertedUsers, insertedLists, now, deletedTrue>>

\* Mutation.addUserToTaskList, line 305
AddUserRead(r) ==
    /\ Running(r, "addUserToTaskList", "addUser_read")
    /\ Finish(r, Value(FindOneById(TaskList, ObjectId(req[r].args.taskListId))))
    /\ UNCHANGED <<Store, now>>

\* ----------------------------------------------------- specifications
\* The server starts on an empty database.
Init ==
    /\ Users = <<>>
    /\ TaskList = <<>>
    /\ insertedUsers = 0
    /\ insertedLists = 0
    /\ now = 0
    /\ req = [r \in Reqs |-> Idle]
    /\ deletedTrue = <<>>

Step(r) ==
    \/ MyTaskLists(r)
    \/ GetTaskList(r)
    \/ \E i \in 1..(MaxAdded + 1) : UsersLookup(r, i)
    \/ UsersSettled(r)
    \/ SignUpInsert(r)
    \/ SignUpRead(r)
    \/ SignIn(r)
    \/ CreateInsert(r)
    \/ CreateRead(r)
    \/ UpdateWrite(r)
    \/ UpdateRead(r)
    \/ DeleteTaskList(r)
    \/ AddUserFind(r)
    \/ AddUserPush(r)
    \/ AddUserRead(r)
    \/ Respond(r)

Next == Arrive \/ Tick \/ \E r \in Reqs : Step(r)

Spec == Init /\ [][Next]_vars

\* The server runs on a database in which two users have signed up, and
\* serves task-list requests concurrently.
InitConc ==
    /\ Users = InsertOne(InsertOne(<<>>,
                   [email |-> "a@x", password |-> HashSync("p"), name |-> "n"],
                   UserOid(1)),
                   [email |-> "a@x", password |-> HashSync("q"), name |-> "n"],
                   UserOid(2))
    /\ insertedUsers = Len(Users)
    /\ TaskList = <<>>
    /\ insertedLists = 0
    /\ now = 0
    /\ req = [r \in Reqs |-> Idle]
    /\ deletedTrue = <<>>

StepConc(r) ==
    \/ MyTaskLists(r)
    \/ GetTaskList(r)
    \/ CreateInsert(r)
    \/ CreateRead(r)
    \/ UpdateWrite(r)
    \/ UpdateRead(r)
    \/ DeleteTaskList(r)
    \/ AddUserFind(r)
    \/ AddUserPush(r)
    \/ AddUserRead(r)
    \/ Respond(r)

NextConc == ArriveConc \/ \E r \in Reqs : StepConc(r)

SpecConc == InitConc /\ [][NextConc]_vars

\* ------------------------------------------------------------ claims
Range(f) == {f[i] : i \in DOMAIN f}
Done(r, op) == req[r].pc = "done" /\ req[r].op = op
\* request r takes a step of its resolver
Steps(r) == req[r].pc \notin {"idle", "done", "aborted"} /\ req'[r] # req[r]
Authenticated(r) == req[r].user # NULL
Exists(oid) == MatchingIndexes(TaskList, oid) # {}

\* C1: a task-list operation invoked with an anonymous context (no resolved
\* user) fails with the authentication error in its first step, whatever its
\* arguments, and leaves the Users and TaskList collections as they were.
C1_AnonymousFailsBeforePersistence ==
    [][\A r \in Reqs :
          (/\ req[r].pc = "resolve"
           /\ req[r].op \in TaskListOperations
           /\ req[r].user = NULL
           /\ req'[r] # req[r])
          => (/\ req'[r].pc = "done"
              /\ req'[r].ret = Error(AuthErrorMsg)
              /\ Users' = Users
              /\ TaskList' = TaskList)]_vars

\* an anonymous deleteTaskList naming an existing list has failed
C1_Witness ==
    \E r \in Reqs :
        /\ Done(r, "deleteTaskList")
        /\ req[r].user = NULL
        /\ req[r].ret = Error(AuthErrorMsg)
        /\ Exists(ObjectId(req[r].args.id))

\* C2: createTaskList(title) by an authenticated user U inserts, and returns,
\* a list whose userIds is exactly <<U's id>> and whose createdAt is the
\* clock at the call; the myTaskLists query of U then finds it, and the
\* myTaskLists query of any other user does not.
CreatedBy(r) == FindOneById(TaskList', req'[r].loc.insertedId)

C2_CreateTaskListYieldsOwnList ==
    /\ [][\A r \in Reqs :
            (Running(r, "createTaskList", "resolve") /\ Authenticated(r) /\ Steps(r))
            => (/\ CreatedBy(r) # NULL
                /\ CreatedBy(r).userIds = <<req[r].user._id>>
                /\ CreatedBy(r).createdAt = now
                /\ CreatedBy(r).title = req[r].args.title)]_vars
    /\ [](\A r \in Reqs :
            (Done(r, "createTaskList") /\ Authenticated(r))
            => (/\ req[r].ret.kind = "value"
                /\ req[r].ret.val # NULL
                /\ req[r].ret.val.userIds = <<req[r].user._id>>
                /\ req[r].ret.val.createdAt <= now
                /\ req[r].ret.val \in Range(FindByMember(TaskList, req[r].user._id))
                /\ \A i \in DOMAIN Users :
                       Users[i]._id # req[r].user._id
                       => req[r].ret.val \notin Range(FindByMember(TaskList, Users[i]._id))))

\* a user has created a list at clock 1 while another user and another list exist
C2_Witness ==
    \E r \in Reqs :
        /\ Done(r, "createTaskList")
        /\ Authenticated(r)
        /\ req[r].ret.kind = "value"
        /\ req[r].ret.val # NULL
        /\ req[r].ret.val.createdAt = 1
        /\ Len(Users) = 2
        /\ Len(TaskList) = 2

\* C3: myTaskLists called by an authenticated user U returns exactly the
\* stored task lists whose userIds contains U's identifier; a list U has just
\* created, and a list U has just been added to by addUserToTaskList, is one
\* of them.
Members(doc) == Range(doc.userIds)

C3_MyTaskListsIsMembership ==
    [][\A r \in Reqs :
          /\ (Running(r, "myTaskLists", "resolve") /\ Authenticated(r) /\ Steps(r))
             => (/\ req'[r].pc = "done"
                 /\ req'[r].ret.kind = "value"
                 /\ Range(req'[r].ret.val) =
                       {d \in Range(TaskList) : req[r].user._id \in Members(d)})
          /\ (Running(r, "createTaskList", "resolve") /\ Authenticated(r) /\ Steps(r))
             => \E d \in Range(FindByMember(TaskList', req[r].user._id)) :
                    d._id = req'[r].loc.insertedId
          /\ (Running(r, "addUserToTaskList", "addUser_push") /\ Steps(r)
                /\ ObjectIdValid(req[r].args.userId)
                /\ Exists(ObjectId(req[r].args.taskListId)))
             => \E d \in Range(FindByMember(TaskList', ObjectId(req[r].args.userId))) :
                    d._id = ObjectId(req[r].args.taskListId)]_vars

\* a user who was added to one list, and is no member of another, has queried
C3_Witness ==
    \E r \in Reqs :
        /\ Done(r, "myTaskLists")
        /\ Authenticated(r)
        /\ req[r].ret.kind = "value"
        /\ \E d \in Range(req[r].ret.val) : d.userIds[1] # req[r].user._id
        /\ \E d \in Range(TaskList) : req[r].user._id \notin Members(d)

\* C4 (as claimed): addUserToTaskList is idempotent: a call naming a list and
\* a userId whose identifier the list's userIds already holds (as after a
\* first such call) changes no task list and returns the list as stored.
AlreadyAdded(r) ==
    /\ req[r].op = "addUserToTaskList"
    /\ Authenticated(r)
    /\ ObjectIdValid(req[r].args.taskListId)
    /\ ObjectIdValid(req[r].args.userId)
    /\ Exists(ObjectId(req[r].args.taskListId))
    /\ ObjectId(req[r].args.userId)
           \in Members(FindOneById(TaskList, ObjectId(req[r].args.taskListId)))

C4_AddUserIdempotent ==
    [][\A r \in Reqs :
          (AlreadyAdded(r) /\ Steps(r))
          => (/\ TaskList' = TaskList
              /\ req'[r].pc = "done"
              /\ req'[r].ret =
                    Value(FindOneById(TaskList, ObjectId(req[r].args.taskListId))))]_vars

\* C5: deleteTaskList answers true exactly when a list with that identifier
\* is stored, and then removes it; a call naming an identifier of no stored
\* list answers false and changes nothing; so over any interleaving of calls
\* at most one call answers true for an identifier, and a list whose deletion
\* was answered true is never stored again.
NoDuplicates(seq) == \A i, j \in DOMAIN seq : seq[i] = seq[j] => i = j

C5_DeleteTrueExactlyOnce ==
    /\ [](NoDuplicates(deletedTrue))
    /\ [](\A i \in DOMAIN deletedTrue : ~Exists(deletedTrue[i]))
    /\ [][\A r \in Reqs :
            (/\ Running(r, "deleteTaskList", "resolve")
             /\ Authenticated(r)
             /\ ObjectIdValid(req[r].args.id)
             /\ Steps(r))
            => LET oid == ObjectId(req[r].args.id)
               IN /\ req'[r].pc = "done"
                  /\ req'[r].ret = Value(Exists(oid))
                  /\ MatchingIndexes(TaskList', oid) = {}
                  /\ Users' = Users
                  /\ Range(TaskList') = {d \in Range(TaskList) : d._id # oid}
                  /\ ~Exists(oid) => TaskList' = TaskList]_vars

\* a deleteTaskList on an identifier whose deletion was answered true before
\* has answered false, while a second request is in flight
C5_Witness ==
    \E r, q \in Reqs :
        /\ Done(r, "deleteTaskList")
        /\ req[r].ret = Value(FALSE)
        /\ \E i \in DOMAIN deletedTrue : deletedTrue[i] = ObjectId(req[r].args.id)
        /\ q # r
        /\ req[q].pc \notin {"idle", "done", "aborted"}

\* C6: a request whose authorization header is a token jwt.verify rejects is
\* aborted with that error while its context is built: it never reaches a
\* resolver (it is not given an anonymous context), and neither its arrival
\* nor anything done for it changes the store.
Arrives(r) == req[r].pc = "idle" /\ req'[r].pc # "idle"

C6_InvalidTokenAborts ==
    [][\A r \in Reqs :
          /\ (Arrives(r) /\ req'[r].hdr.kind = "invalid")
             => (/\ req'[r].pc = "aborted"
                 /\ req'[r].ret = Error(TokenErrorMsg)
                 /\ Users' = Users
                 /\ TaskList' = TaskList)
          /\ (req[r].pc = "aborted" /\ req'[r] # req[r])
             => (/\ req'[r].pc = "idle"
                 /\ Users' = Users
                 /\ TaskList' = TaskList)]_vars

\* a deleteTaskList naming a stored list came with a rejected token
C6_Witness ==
    \E r \in Reqs :
        /\ req[r].pc = "aborted"
        /\ req[r].op = "deleteTaskList"
        /\ req[r].hdr = InvalidToken
        /\ Exists(ObjectId(req[r].args.id))

\* C7: the context's user is the User document U exactly when the header is
\* a valid token whose subject is the identifier of a stored user U; a
\* request without header, and a request with a valid token whose subject
\* names no stored user, get a context without user, and no error.
SubjectOf(hdr) == {u \in Range(Users) : hdr.kind = "valid" /\ toString(u._id) = hdr.sub}

C7_ContextUser ==
    [][\A r \in Reqs :
          (Arrives(r) /\ req'[r].hdr.kind # "invalid")
          => (/\ req'[r].pc = "resolve"
              /\ req'[r].ret = NULL
              /\ \A u \in SubjectOf(req'[r].hdr) : req'[r].user = u
              /\ SubjectOf(req'[r].hdr) = {} => req'[r].user = NULL)]_vars

\* a request carries a valid token whose subject is no stored user, while
\* users are stored: its context has no user
C7_Witness ==
    \E r \in Reqs :
        /\ req[r].pc = "resolve"
        /\ req[r].hdr = ValidToken(toString(0))
        /\ req[r].user = NULL
        /\ Len(Users) = 2

\* C8: signIn with the email of a stored user and a password that is the
\* password of no user with that email, and signIn with an email no user
\* has, fail with the same error, "Invalid credentials!"; and signIn changes
\* neither collection.
EmailKnown(input) == \E u \in Range(Users) : u.email = input.email
PasswordWrong(input) ==
    \A u \in Range(Users) :
        u.email = input.email => u.password # HashSync(input.password)

C8_SignInFailuresAlike ==
    [][\A r \in Reqs :
          (Running(r, "signIn", "resolve") /\ Steps(r))
          => (/\ req'[r].pc = "done"
              /\ Users' = Users
              /\ TaskList' = TaskList
              /\ ~EmailKnown(req[r].args) => req'[r].ret = Error(CredentialsErrorMsg)
              /\ (EmailKnown(req[r].args) /\ PasswordWrong(req[r].args))
                 => req'[r].ret = Error(CredentialsErrorMsg))]_vars

\* a signIn with a stored email and a wrong password has failed
C8_Witness ==
    \E r \in Reqs :
        /\ Done(r, "signIn")
        /\ EmailKnown(req[r].args)
        /\ PasswordWrong(req[r].args)
        /\ req[r].ret = Error(CredentialsErrorMsg)

\* C9 (as claimed): TaskList.users resolves without error to the stored
\* users of the list's userIds, in the order of userIds, the identifiers of
\* no stored user being left out.
RECURSIVE StoredUsersOf(_)
StoredUsersOf(ids) ==
    IF ids = <<>> THEN <<>>
    ELSE (IF FindOneById(Users, Head(ids)) = NULL THEN <<>>
          ELSE <<FindOneById(Users, Head(ids))>>) \o StoredUsersOf(Tail(ids))

C9_UsersInOrderNoError ==
    \A r \in Reqs :
        (Done(r, "getTaskList") /\ Authenticated(r) /\ req[r].args.users
            /\ ObjectIdValid(req[r].args.id) /\ Exists(ObjectId(req[r].args.id)))
        => (/\ req[r].ret.kind = "value"
            /\ SelectSeq(req[r].ret.val.users, LAMBDA u : u # NULL)
                  = StoredUsersOf(req[r].ret.val.taskList.userIds))

\* C10: updateTaskList(id, title) changes nothing but the title of the list
\* with that identifier: the Users collection, the number and order of the
\* task lists, and every list's _id, createdAt and userIds stay, and so does
\* the title of every other list; when id is the identifier of no stored list
\* nothing changes and the resolver returns null.
SameBut(new, old, oid, title) ==
    /\ Len(new) = Len(old)
    /\ \A i \in DOMAIN old :
           new[i] = IF old[i]._id = oid THEN [old[i] EXCEPT !.title = title]
                    ELSE old[i]

C10_UpdateChangesTitleOnly ==
    /\ [][\A r \in Reqs :
            (req[r].op = "updateTaskList" /\ req'[r] # req[r] /\ req[r].pc # "idle")
            => (/\ Users' = Users
                /\ insertedLists' = insertedLists
                /\ IF Running(r, "updateTaskList", "resolve") /\ Authenticated(r)
                      /\ ObjectIdValid(req[r].args.id)
                   THEN SameBut(TaskList', TaskList, ObjectId(req[r].args.id),
                                req[r].args.title)
                   ELSE TaskList' = TaskList
                /\ ~Exists(ObjectId(req[r].args.id)) => TaskList' = TaskList)]_vars
    /\ [](\A r \in Reqs :
            (Done(r, "updateTaskList") /\ Authenticated(r)
                /\ ObjectIdValid(req[r].args.id)
                /\ ~Exists(ObjectId(req[r].args.id)))
            => req[r].ret = Value(NULL))

\* an update has retitled one of two stored lists whose titles now differ
C10_Witness ==
    \E r \in Reqs :
        /\ Done(r, "updateTaskList")
        /\ req[r].ret.kind = "value"
        /\ req[r].ret.val # NULL
        /\ req[r].ret.val.title = req[r].args.title
        /\ Len(TaskList) = 2
        /\ TaskList[1].title # TaskList[2].title
        /\ Added(TaskList) > 0

\* C11: every stored task list has a non-empty userIds whose first element is
\* the user who created it: createTaskList stores a new list, under a fresh
\* identifier, whose first member is the caller; a list enters the collection
\* by a createTaskList only; and every step of every operation leaves the
\* first member of each list it keeps where it was.
C11_CreatorStaysFirst ==
    /\ [](\A i \in DOMAIN TaskList : Len(TaskList[i].userIds) >= 1)
    /\ [][\A r \in Reqs :
            (Running(r, "createTaskList", "resolve") /\ Authenticated(r) /\ Steps(r))
            => (/\ ~Exists(req'[r].loc.insertedId)
                /\ CreatedBy(r) # NULL
                /\ CreatedBy(r).userIds[1] = req[r].user._id)]_vars
    /\ [][\A i \in DOMAIN TaskList' :
            IF Exists(TaskList'[i]._id)
            THEN TaskList'[i].userIds[1] =
                     FindOneById(TaskList, TaskList'[i]._id).userIds[1]
            ELSE \E r \in Reqs :
                     /\ Running(r, "createTaskList", "resolve")
                     /\ Authenticated(r)
                     /\ Steps(r)
                     /\ req'[r].loc.insertedId = TaskList'[i]._id]_vars

\* a list that was retitled and got two more members after another list was
\* deleted still starts with its creator
C11_Witness ==
    /\ deletedTrue # <<>>
    /\ \E i \in DOMAIN TaskList :
           /\ Len(TaskList[i].userIds) = 3
           /\ TaskList[i].userIds[2] # TaskList[i].userIds[1]
           /\ TaskList[i].title = "T2"
           /\ \E r \in Reqs :
                  /\ Done(r, "addUserToTaskList")
                  /\ req[r].ret = Value(TaskList[i])

\* C12: addUserToTaskList naming an identifier that no stored list has answers
\* null in its first step and changes no collection; and when the list was
\* there at the membership check and is gone at the append (deleted by a
\* concurrent request), the append and the read-back change no collection,
\* store no list, and the call answers null.
AddUserToMissing(r, pc) ==
    /\ Running(r, "addUserToTaskList", pc)
    /\ Authenticated(r)
    /\ ObjectIdValid(req[r].args.taskListId)
    /\ ~Exists(ObjectId(req[r].args.taskListId))

C12_AddUserToMissingListIsNull ==
    [][\A r \in Reqs :
          /\ (AddUserToMissing(r, "resolve") /\ Steps(r))
             => (/\ req'[r].pc = "done"
                 /\ req'[r].ret = Value(NULL)
                 /\ TaskList' = TaskList
                 /\ Users' = Users)
          /\ (AddUserToMissing(r, "addUser_push") /\ Steps(r))
             => (/\ req'[r].pc = "addUser_read"
                 /\ TaskList' = TaskList
                 /\ Users' = Users)
          /\ (AddUserToMissing(r, "addUser_read") /\ Steps(r))
             => (/\ req'[r].pc = "done"
                 /\ req'[r].ret = Value(NULL)
                 /\ TaskList' = TaskList
                 /\ Users' = Users)]_vars

\* an addUserToTaskList was past its membership check when another request
\* deleted the list; its append has run, the collection is empty
C12_Witness ==
    \E r, q \in Reqs :
        /\ AddUserToMissing(r, "addUser_read")
        /\ Done(q, "deleteTaskList")
        /\ req[q].ret = Value(TRUE)
        /\ req[q].args.id = req[r].args.taskListId
        /\ TaskList = <<>>

\* C13: what getTaskList, updateTaskList, deleteTaskList and addUserToTaskList
\* answer to a signed-in caller, and what they do to the store, is a function
\* of the arguments and the store alone: the caller, member of the target
\* list or not, is no argument of it.  OutcomeOf gives, for a step of one of
\* these operations, the position it leads to, its answer (NULL while the
\* call goes on) and the TaskList collection it leaves.
Outcome(pc, ret, coll) == [pc |-> pc, ret |-> ret, coll |-> coll]

OutcomeOf(op, pc, args, coll) ==
    CASE op = "getTaskList" /\ pc = "resolve" ->
            IF ~ObjectIdValid(args.id)
            THEN Outcome("done", Error(ObjectIdErrorMsg), coll)
            ELSE IF FindOneById(coll, ObjectId(args.id)) # NULL /\ args.users
            THEN Outcome("users", NULL, coll)
            ELSE Outcome("done", Value(FindOneById(coll, ObjectId(args.id))), coll)
      [] op = "updateTaskList" /\ pc = "resolve" ->
            IF ~ObjectIdValid(args.id)
            THEN Outcome("done", Error(ObjectIdErrorMsg), coll)
            ELSE Outcome("update_read", NULL,
                         UpdateOneSetTitle(coll, ObjectId(args.id), args.title))
      [] op = "updateTaskList" /\ pc = "update_read" ->
            Outcome("done", Value(FindOneById(coll, ObjectId(args.id))), coll)
      [] op = "deleteTaskList" /\ pc = "resolve" ->
            IF ~ObjectIdValid(args.id)
            THEN Outcome("done", Error(ObjectIdErrorMsg), coll)
            ELSE Outcome("done", Value(MatchingIndexes(coll, ObjectId(args.id)) # {}),
                         DeleteOne(coll, ObjectId(args.id)))
      [] op = "addUserToTaskList" /\ pc = "resolve" ->
            IF ~ObjectIdValid(args.taskListId)
            THEN Outcome("done", Error(ObjectIdErrorMsg), coll)
            ELSE IF FindOneById(coll, ObjectId(args.taskListId)) = NULL
            THEN Outcome("done", Value(NULL), coll)
            ELSE IF AlreadyMember(FindOneById(coll, ObjectId(args.taskListId)),
                                  args.userId)
            THEN Outcome("done",
                         Value(FindOneById(coll, ObjectId(args.taskListId))), coll)
            ELSE Outcome("addUser_push", NULL, coll)
      [] op = "addUserToTaskList" /\ pc = "addUser_push" ->
            IF ~ObjectIdValid(args.userId)
            THEN Outcome("done", Error(ObjectIdErrorMsg), coll)
            ELSE Outcome("addUser_read", NULL,
                         UpdateOnePush(coll, ObjectId(args.taskListId),
                                       ObjectId(args.userId)))
      [] op = "addUserToTaskList" /\ pc = "addUser_read" ->
            Outcome("done", Value(FindOneById(coll, ObjectId(args.taskListId))),
                    coll)

MemberBlind == {"getTaskList", "updateTaskList", "deleteTaskList",
                "addUserToTaskList"}

C13_OutcomeIgnoresCallerMembership ==
    [][\A r \in Reqs :
          (req[r].op \in MemberBlind /\ Authenticated(r) /\ Steps(r))
          => /\ Users' = Users
             /\ IF req[r].pc = "users"
                THEN /\ TaskList' = TaskList
                     /\ \/ /\ req'[r].pc = "done"
                           /\ req'[r].ret = CompleteUsers(req[r].loc.parent,
                                                          req[r].loc.found)
                        \/ /\ req'[r].pc = "users"
                           /\ \E i \in DOMAIN req[r].loc.found :
                                  req'[r].loc =
                                      [req[r].loc EXCEPT !.found[i] =
                                          FindOneById(Users,
                                              req[r].loc.parent.userIds[i])]
                ELSE Outcome(req'[r].pc, req'[r].ret, TaskList') =
                         OutcomeOf(req[r].op, req[r].pc, req[r].args, TaskList)]_vars

\* a caller who is no member of a list has retitled it and got it back
C13_Witness ==
    \E r \in Reqs :
        /\ Done(r, "updateTaskList")
        /\ req[r].ret.kind = "value"
        /\ req[r].ret.val # NULL
        /\ ~HasMember(req[r].ret.val, req[r].user._id)
        /\ req[r].ret.val.title = req[r].args.title
        /\ req[r].ret.val.title = "T2"
        /\ FindOneById(TaskList, ObjectId(req[r].args.id)) = req[r].ret.val

\* C14: signUp rejects no input for its email: its first step appends one
\* User document to the collection, with the input's email and name and an
\* identifier no stored user has, whether or not the email is already there;
\* its second step answers that very document with a token for its
\* identifier; and stored users always have pairwise distinct identifiers.
UserIds(coll) == {coll[i]._id : i \in DOMAIN coll}

C14_SignUpAlwaysAddsFreshUser ==
    /\ [](\A i, j \in DOMAIN Users : Users[i]._id = Users[j]._id => i = j)
    /\ [][\A r \in Reqs :
            (Running(r, "signUp", "resolve") /\ Steps(r))
            => (/\ req'[r].pc = "signUp_read"
                /\ Len(Users') = Len(Users) + 1
                /\ SubSeq(Users', 1, Len(Users)) = Users
                /\ Users'[Len(Users')]._id \notin UserIds(Users)
                /\ Users'[Len(Users')]._id = req'[r].loc.insertedId
                /\ Users'[Len(Users')].email = req[r].args.email
                /\ Users'[Len(Users')].name = req[r].args.name
                /\ CompareSync(req[r].args.password,
                               Users'[Len(Users')].password))]_vars
    /\ [][\A r \in Reqs :
            (Running(r, "signUp", "signUp_read") /\ Steps(r))
            => (/\ req'[r].pc = "done"
                /\ req'[r].ret.kind = "value"
                /\ req'[r].ret.val.user \in Range(Users)
                /\ req'[r].ret.val.user._id = req[r].loc.insertedId
                /\ req'[r].ret.val.user.email = req[r].args.email
                /\ req'[r].ret.val.token =
                       ValidToken(toString(req[r].loc.insertedId))
                /\ Users' = Users)]_vars

\* the second signUp with an email has answered its own user, and the
\* collection holds two users with that email
C14_Witness ==
    \E r \in Reqs :
        /\ Done(r, "signUp")
        /\ req[r].ret.kind = "value"
        /\ Len(Users) = 2
        /\ Users[1].email = Users[2].email
        /\ Users[1]._id # Users[2]._id
        /\ req[r].ret.val.user = Users[2]
        /\ req[r].ret.val.token = getToken(Users[2])

\* C15: a stored User is never updated or deleted: every step leaves each
\* stored user as and where it is, and the only step that changes the Users
\* collection is the insert of a signUp, which appends one document.
C15_UsersOnlyGrowBySignUp ==
    /\ [][/\ Len(Users') >= Len(Users)
          /\ \A i \in DOMAIN Users : Users'[i] = Users[i]]_vars
    /\ [][Users' # Users
            => (/\ Len(Users') = Len(Users) + 1
                /\ \E r \in Reqs :
                       /\ Running(r, "signUp", "resolve")
                       /\ Steps(r)
                       /\ \A q \in Reqs \ {r} : req'[q] = req[q])]_vars

\* after a second signUp, a list creation, an added member, a deletion and
\* a signIn, the first user is stored as signed up
C15_Witness ==
    /\ Len(Users) = 2
    /\ Users[1] = [_id |-> UserOid(1), email |-> "a@x",
                   password |-> HashSync("p"), name |-> "n"]
    /\ deletedTrue # <<>>
    /\ Added(TaskList) > 0
    /\ \E r \in Reqs :
           /\ Done(r, "signIn")
           /\ req[r].ret.kind = "value"
           /\ req[r].ret.val.user = Users[1]

\* C16: no stored task list's userIds holds the same user identifier twice,
\* in any reachable state, requests for the same (taskListId, userId)
\* interleaved between membership check and append included.
C16_NoDuplicateMembers ==
    \A i \in DOMAIN TaskList : NoDuplicates(TaskList[i].userIds)

\* C17: two addUserToTaskList requests that add two different users to the
\* same list, both past the membership check (the list was there, the user
\* was not in it) and both completed while the list is still stored, leave
\* both users in userIds: the append of a request puts its user into the
\* stored list, and no step takes an entry out of a stored list's userIds.
Appended(r) ==
    /\ Done(r, "addUserToTaskList")
    /\ req[r].ret.kind = "value"
    /\ req[r].ret.val # NULL

IsPrefix(s, t) == Len(s) <= Len(t) /\ SubSeq(t, 1, Len(s)) = s

C17_NeitherAppendLost ==
    /\ [](\A r, q \in Reqs :
            (/\ r # q
             /\ Appended(r)
             /\ Appended(q)
             /\ req[r].args.taskListId = req[q].args.taskListId
             /\ ObjectId(req[r].args.userId) # ObjectId(req[q].args.userId)
             /\ Exists(ObjectId(req[r].args.taskListId)))
            => LET doc == FindOneById(TaskList, ObjectId(req[r].args.taskListId))
               IN /\ HasMember(doc, ObjectId(req[r].args.userId))
                  /\ HasMember(doc, ObjectId(req[q].args.userId))
                  /\ HasMember(req[r].ret.val, ObjectId(req[r].args.userId))
                  /\ HasMember(req[q].ret.val, ObjectId(req[q].args.userId)))
    /\ [][\A r \in Reqs :
            (/\ Running(r, "addUserToTaskList", "addUser_push")
             /\ Steps(r)
             /\ Exists(ObjectId(req[r].args.taskListId)))
            => HasMember(FindOneById(TaskList', ObjectId(req[r].args.taskListId)),
                         ObjectId(req[r].args.userId))]_vars
    /\ [][\A i \in DOMAIN TaskList' :
            Exists(TaskList'[i]._id)
            => IsPrefix(FindOneById(TaskList, TaskList'[i]._id).userIds,
                        TaskList'[i].userIds)]_vars

\* two requests added two different users, neither the creator, to one list
\* and ran together: each has read the list back after the other's append
C17_Witness ==
    \E r, q \in Reqs :
        /\ r # q
        /\ Appended(r)
        /\ Appended(q)
        /\ req[r].args.taskListId = req[q].args.taskListId
        /\ ObjectId(req[r].args.userId) # ObjectId(req[q].args.userId)
        /\ req[r].ret = req[q].ret
        /\ req[r].ret.val.userIds =
               <<req[r].ret.val.userIds[1], ObjectId(req[r].args.userId),
                 ObjectId(req[q].args.userId)>>
        /\ req[r].ret.val.userIds[1] \notin
               {ObjectId(req[r].args.userId), ObjectId(req[q].args.userId)}
        /\ FindOneById(TaskList, ObjectId(req[r].args.taskListId)) = req[r].ret.val

\* C18: an updateTaskList that answers a list (its read-back found the list,
\* so its write did: identifiers are not reused) answers the list it named,
\* with the title of this very call, whatever other requests on the same id
\* did between its write and its read-back.
C18_UpdateReturnsOwnTitle ==
    \A r \in Reqs :
        (/\ Done(r, "updateTaskList")
         /\ req[r].ret.kind = "value"
         /\ req[r].ret.val # NULL)
        => (/\ req[r].ret.val._id = ObjectId(req[r].args.id)
            /\ req[r].ret.val.title = req[r].args.title)

\* C19: a signIn with the email and password of a completed signUp succeeds
\* and answers the user that signUp created, whatever else the Users
\* collection holds (other users with the same email included): for every
\* stored user, a signIn with that user's email and the password its hash
\* was made from answers that user and a token for it.
C19_SignInAfterSignUp ==
    [][\A r \in Reqs :
          (Running(r, "signIn", "resolve") /\ Steps(r))
          => \A u \in Range(Users) :
                 (/\ u.email = req[r].args.email
                  /\ CompareSync(req[r].args.password, u.password))
                 => req'[r].ret = Value([user |-> u, token |-> getToken(u)])]_vars

\* C20: a list that deleteTaskList has removed never comes back: no step,
\* of a request that was in flight during the delete or of a later one,
\* stores a list under its identifier again; getTaskList naming it answers
\* null, and no answer of myTaskLists contains it.
Deleted == Range(deletedTrue)

C20_DeletedStaysDeleted ==
    /\ [][\A oid \in Deleted : ~Exists(oid) /\ MatchingIndexes(TaskList', oid) = {}]_vars
    /\ [][\A r \in Reqs :
            /\ (/\ Running(r, "getTaskList", "resolve")
                /\ Authenticated(r)
                /\ ObjectIdValid(req[r].args.id)
                /\ ObjectId(req[r].args.id) \in Deleted
                /\ Steps(r))
               => (req'[r].pc = "done" /\ req'[r].ret = Value(NULL))
            /\ (Running(r, "myTaskLists", "resolve") /\ Authenticated(r) /\ Steps(r))
               => (/\ req'[r].pc = "done"
                   /\ req'[r].ret.kind = "value"
                   /\ \A i \in DOMAIN req'[r].ret.val :
                          req'[r].ret.val[i]._id \notin Deleted)
            /\ (/\ req[r].op \in {"updateTaskList", "addUserToTaskList"}
                /\ ObjectIdValid(IF req[r].op = "updateTaskList" THEN req[r].args.id
                                 ELSE req[r].args.taskListId)
                /\ ObjectId(IF req[r].op = "updateTaskList" THEN req[r].args.id
                            ELSE req[r].args.taskListId) \in Deleted
                /\ Steps(r))
               => TaskList' = TaskList]_vars

\* a list was deleted while an updateTaskList on it was in flight; the
\* update has completed with nothing to read back, and a getTaskList on the
\* identifier has answered null
C20_Witness ==
    \E r, q \in Reqs :
        /\ Done(r, "getTaskList")
        /\ req[r].ret = Value(NULL)
        /\ ObjectId(req[r].args.id) \in Deleted
        /\ Done(q, "updateTaskList")
        /\ req[q].args.id = req[r].args.id
        /\ req[q].ret = Value(NULL)
        /\ TaskList = <<>>

====
